---- MODULE Spec2Model ----
(***************************************************************************)
(* Model of the Recipe Server (src/app.js): six Express handlers over one  *)
(* PostgreSQL table `recipes` reached through a pg connection pool.        *)
(*                                                                         *)
(* A statement text is a sequence of lexemes; the fragments a handler      *)
(* interpolates into a template literal are lexemes of that sequence, so a *)
(* caller-supplied value that reaches the text is visible in it.  The      *)
(* store parses the lexemes and binds positional parameters as PostgreSQL  *)
(* does for the single-statement extended protocol.                        *)
(***************************************************************************)
EXTENDS Integers, Sequences, FiniteSets, TLC

\* ---------------------------------------------------------------- bounds
MaxSerial == 2          \* rows the serial sequence may hand out in a run
PoolSize == 2           \* connections of the pool (pg's `max`)

\* ------------------------------------------------------ values and inputs
Null == "NULL"                          \* JSON null / JS undefined
InjectAll == "1 OR TRUE"                \* a path parameter that is not a number
Fields == {"name", "description", "photo"}
Columns == {"id"} \cup Fields

Nums == 0..(MaxSerial + 1)
PathIds == {ToString(n) : n \in 1..(MaxSerial + 1)} \cup {InjectAll}

\* req.body is an ordered list of <<key, value>> pairs with distinct keys
Pair(k, v) == <<k, v>>
FullBody(v) == <<Pair("name", v), Pair("description", v), Pair("photo", v)>>
FullBodies == {FullBody("a"), FullBody("b")}
CreateBodies == FullBodies \cup {<<Pair("name", "a")>>}
PatchBodies ==
    { <<>>,
      <<Pair("name", "b")>>,
      <<Pair("description", "a"), Pair("name", "b")>>,
      <<Pair("name", Null), Pair("photo", "b")>>,
      <<Pair("name", Null)>>,
      FullBody("b"),
      <<Pair("bogus", "b")>>,
      <<Pair("id", "2")>> }

\* ------------------------------------------------------- JavaScript helpers
\* Object.keys(vals)
ObjectKeys(vals) == [i \in 1..Len(vals) |-> vals[i][1]]

\* vals[key]; a missing key reads as undefined, which pg binds as NULL
Get(vals, key) ==
    IF \E i \in 1..Len(vals) : vals[i][1] = key
    THEN vals[CHOOSE i \in 1..Len(vals) : vals[i][1] = key][2]
    ELSE Null

\* Array.prototype.indexOf: zero-based position of the first occurrence
IndexOf(arr, x) ==
    IF \E i \in 1..Len(arr) : arr[i] = x
    THEN (CHOOSE i \in 1..Len(arr) : arr[i] = x /\ \A j \in 1..(i - 1) : arr[j] # x) - 1
    ELSE -1

\* Array.prototype.join(', ') over lexeme groups
RECURSIVE Join(_)
Join(parts) ==
    IF Len(parts) = 0 THEN <<>>
    ELSE IF Len(parts) = 1 THEN parts[1]
    ELSE parts[1] \o <<",">> \o Join(Tail(parts))

Placeholder(n) == "$" \o ToString(n)

\* ------------------------------------------------------ statement builders
SelectAllText == <<"SELECT", "*", "FROM", "recipes">>
SelectByIdText == <<"SELECT", "*", "FROM", "recipes", "WHERE", "id", "=", "$1">>
InsertText ==
    <<"INSERT", "INTO", "recipes", "(", "name", ",", "description", ",", "photo", ")",
      "VALUES", "(", "$1", ",", "$2", ",", "$3", ")", "RETURNING", "id">>
UpdateText ==
    <<"UPDATE", "recipes", "SET", "name", "=", "$1", ",", "description", "=", "$2", ",",
      "photo", "=", "$3", "WHERE", "id", "=", "$4">>
DeleteText == <<"DELETE", "FROM", "recipes", "WHERE", "id", "=", "$1">>

Stmt(text, params) == [text |-> text, params |-> params]

\* InsertStmt that drops the photo of the body
InsertStmtNoPhoto(vals) ==
    Stmt(InsertText, <<Get(vals, "name"), Get(vals, "description"), "">>)

InsertStmt(vals) ==
    Stmt(InsertText, <<Get(vals, "name"), Get(vals, "description"), Get(vals, "photo")>>)
UpdateStmt(id, vals) ==
    Stmt(UpdateText, <<Get(vals, "name"), Get(vals, "description"), Get(vals, "photo"), id>>)
DeleteStmt(id) == Stmt(DeleteText, <<id>>)
SelectByIdStmt(id) == Stmt(SelectByIdText, <<id>>)

\* PatchKeys without the null filter
PatchKeysAll(vals) == ObjectKeys(vals)

\* the PATCH handler's statement construction
PatchKeys(vals) == SelectSeq(ObjectKeys(vals), LAMBDA key : Get(vals, key) # Null)
PatchValues(vals) == [i \in 1..Len(PatchKeys(vals)) |-> Get(vals, PatchKeys(vals)[i])]
\* KeysWithId numbering the placeholders from the end of the key list
KeysWithIdReversed(vals) ==
    [i \in 1..Len(PatchKeys(vals)) |->
        <<PatchKeys(vals)[i], "=",
          Placeholder(Len(PatchKeys(vals)) - IndexOf(PatchKeys(vals), PatchKeys(vals)[i]))>>]

KeysWithId(vals) ==
    [i \in 1..Len(PatchKeys(vals)) |->
        <<PatchKeys(vals)[i], "=",
          Placeholder(IndexOf(PatchKeys(vals), PatchKeys(vals)[i]) + 1)>>]
PatchStmt(id, vals) ==
    Stmt(<<"UPDATE", "recipes", "SET">> \o Join(KeysWithId(vals)) \o <<"WHERE", "id", "=", id>>,
         PatchValues(vals))

\* ------------------------------------------------------------------ store
\* recipes(id serial primary key, name, description, photo: not null)
Row(id, name, description, photo) ==
    [id |-> id, name |-> name, description |-> description, photo |-> photo]

IsNum(s) == \E n \in Nums : ToString(n) = s
ToNum(s) == CHOOSE n \in Nums : ToString(n) = s

MaxParams == 4
PlaceholderNo(tok) ==
    IF \E k \in 1..MaxParams : tok = Placeholder(k)
    THEN CHOOSE k \in 1..MaxParams : tok = Placeholder(k)
    ELSE 0

Failure(tbl, ser) == [ok |-> FALSE, table |-> tbl, serial |-> ser, rows |-> <<>>, rowCount |-> 0]
Success(tbl, ser, rows, n) == [ok |-> TRUE, table |-> tbl, serial |-> ser, rows |-> rows, rowCount |-> n]

Ids(tbl) == {row.id : row \in tbl}

\* `WHERE id = <operand>`: a placeholder is bound and cast to integer, any
\* other lexeme is SQL text that the store evaluates
WhereOk(operand, params) ==
    IF PlaceholderNo(operand) > 0
    THEN /\ PlaceholderNo(operand) <= Len(params)
         /\ (params[PlaceholderNo(operand)] = Null \/ IsNum(params[PlaceholderNo(operand)]))
    ELSE IsNum(operand) \/ operand = InjectAll
Matching(operand, params, tbl) ==
    IF PlaceholderNo(operand) > 0
    THEN IF params[PlaceholderNo(operand)] = Null THEN {}
         ELSE {row \in tbl : row.id = ToNum(params[PlaceholderNo(operand)])}
    ELSE IF operand = InjectAll THEN tbl
         ELSE {row \in tbl : row.id = ToNum(operand)}

\* position of the first WHERE lexeme, 0 when there is none
WherePos(text) ==
    IF \E i \in 1..Len(text) : text[i] = "WHERE"
    THEN CHOOSE i \in 1..Len(text) : text[i] = "WHERE" /\ \A j \in 1..(i - 1) : text[j] # "WHERE"
    ELSE 0

\* the SET list `col = $k , col = $k ...` between SET and WHERE
SetList(text) == SubSeq(text, 4, WherePos(text) - 1)
SetCount(text) == (Len(SetList(text)) + 1) \div 4
SetCol(text, i) == SetList(text)[4 * i - 3]
SetArg(text, i) == PlaceholderNo(SetList(text)[4 * i - 1])
UsedParams(text) ==
    {SetArg(text, i) : i \in 1..SetCount(text)}
        \cup (IF PlaceholderNo(text[Len(text)]) > 0 THEN {PlaceholderNo(text[Len(text)])} ELSE {})

UpdateParses(text, params) ==
    /\ Len(text) >= 3
    /\ SubSeq(text, 1, 3) = <<"UPDATE", "recipes", "SET">>
    /\ WherePos(text) > 0
    /\ Len(text) = WherePos(text) + 3
    /\ text[WherePos(text) + 1] = "id"
    /\ text[WherePos(text) + 2] = "="
    /\ Len(SetList(text)) >= 3
    /\ Len(SetList(text)) % 4 = 3
    /\ \A i \in 1..SetCount(text) :
          /\ SetCol(text, i) \in Columns
          /\ SetList(text)[4 * i - 2] = "="
          /\ SetArg(text, i) > 0
          /\ i < SetCount(text) => SetList(text)[4 * i] = ","
          /\ \A j \in 1..SetCount(text) : SetCol(text, j) = SetCol(text, i) => j = i
    /\ UsedParams(text) = 1..Len(params)
    /\ WhereOk(text[Len(text)], params)
    /\ \A i \in 1..SetCount(text) :
          SetCol(text, i) = "id" =>
              (params[SetArg(text, i)] = Null \/ IsNum(params[SetArg(text, i)]))

\* the value column col gets from the SET list, the old one when not named
Assigned(text, params, row, col) ==
    IF \E i \in 1..SetCount(text) : SetCol(text, i) = col
    THEN params[SetArg(text, CHOOSE i \in 1..SetCount(text) : SetCol(text, i) = col)]
    ELSE IF col = "id" THEN ToString(row.id) ELSE row[col]
Updated(text, params, row) ==
    Row(IF Assigned(text, params, row, "id") = Null THEN 0
        ELSE ToNum(Assigned(text, params, row, "id")),
        Assigned(text, params, row, "name"),
        Assigned(text, params, row, "description"),
        Assigned(text, params, row, "photo"))

ExecUpdate(stmt, tbl, ser) ==
    IF ~UpdateParses(stmt.text, stmt.params) THEN Failure(tbl, ser)
    ELSE LET hit == Matching(stmt.text[Len(stmt.text)], stmt.params, tbl)
             new == {Updated(stmt.text, stmt.params, row) : row \in hit}
             out == (tbl \ hit) \cup new
         IN  IF \/ \E row \in hit : \E col \in Columns :
                        Assigned(stmt.text, stmt.params, row, col) = Null
                \/ Cardinality(Ids(out)) # Cardinality(tbl)
             THEN Failure(tbl, ser)
             ELSE Success(out, ser, <<>>, Cardinality(hit))

\* nextval() is not rolled back when the row is then refused
ExecInsert(stmt, tbl, ser) ==
    IF stmt.text # InsertText \/ Len(stmt.params) # 3 THEN Failure(tbl, ser)
    ELSE IF \/ \E i \in 1..3 : stmt.params[i] = Null
            \/ ser \in Ids(tbl)
         THEN Failure(tbl, ser + 1)
         ELSE Success(tbl \cup {Row(ser, stmt.params[1], stmt.params[2], stmt.params[3])},
                      ser + 1, <<[id |-> ser]>>, 1)

ExecDelete(stmt, tbl, ser) ==
    IF stmt.text # DeleteText \/ Len(stmt.params) # 1 \/ ~WhereOk("$1", stmt.params)
    THEN Failure(tbl, ser)
    ELSE LET hit == Matching("$1", stmt.params, tbl)
         IN  Success(tbl \ hit, ser, <<>>, Cardinality(hit))

ExecSelect(stmt, tbl, ser) ==
    IF stmt.text = SelectAllText /\ Len(stmt.params) = 0
    THEN Success(tbl, ser, tbl, Cardinality(tbl))
    ELSE IF stmt.text = SelectByIdText /\ Len(stmt.params) = 1 /\ WhereOk("$1", stmt.params)
         THEN Success(tbl, ser, Matching("$1", stmt.params, tbl),
                      Cardinality(Matching("$1", stmt.params, tbl)))
         ELSE Failure(tbl, ser)

\* execute(statement, params) -> {rows, rowCount} | error
Execute(stmt, tbl, ser) ==
    IF Len(stmt.text) = 0 THEN Failure(tbl, ser)
    ELSE IF stmt.text[1] = "UPDATE" THEN ExecUpdate(stmt, tbl, ser)
    ELSE IF stmt.text[1] = "INSERT" THEN ExecInsert(stmt, tbl, ser)
    ELSE IF stmt.text[1] = "DELETE" THEN ExecDelete(stmt, tbl, ser)
    ELSE IF stmt.text[1] = "SELECT" THEN ExecSelect(stmt, tbl, ser)
    ELSE Failure(tbl, ser)

\* ------------------------------------------------------------------ state
Reqs == {"r1", "r2"}        \* request slots
SeqReqs == {"r1"}           \* the slot used when requests are served one at a time
Kinds == {"GETALL", "GET", "POST", "PUT", "PATCH", "DELETE"}

VARIABLES
    table,          \* rows of recipes
    serial,         \* next value of the id sequence
    checkedOut,     \* clients handed out by pool.connect() and not released
    pc,             \* per request: idle, connect, query, insert, done
    kind,           \* per request: the endpoint
    reqId,          \* per request: req.params.id
    body,           \* per request: req.body
    pre,            \* per request: the table when the request arrived
    issued,         \* per request: statements handed to the store, in order
    sent            \* per request: responses the handler sent, in order

vars == <<table, serial, checkedOut, pc, kind, reqId, body, pre, issued, sent>>
store == <<table, serial>>
request == <<kind, reqId, body, pre>>

Resp(status, text, rows) == [status |-> status, text |-> text, rows |-> rows]

CreatedOk == Resp(200, "Recipe created successfully", {})
CreateError == Resp(500, "Error creating recipe", {})
UpdatedOk == Resp(200, "Recipe updated successfully", {})
PatchedOk == Resp(200, "Recipe patched successfully", {})
UpdateError == Resp(500, "Error updating recipe", {})
DeletedOk == Resp(200, "Recipe deleted successfully", {})
DeleteError == Resp(500, "Error deleting recipe", {})
GetAllError == Resp(500, "Error getting recipes", {})
GetError == Resp(500, "Error getting recipe", {})
NoRecipe(id) == Resp(200, "No recipe found with id " \o id, {})
Found(rows) == Resp(200, "", rows)

Init ==
    /\ table = {}
    /\ serial = 1
    /\ checkedOut = 0
    /\ pc = [r \in Reqs |-> "idle"]
    /\ kind = [r \in Reqs |-> "NONE"]
    /\ reqId = [r \in Reqs |-> ""]
    /\ body = [r \in Reqs |-> <<>>]
    /\ pre = [r \in Reqs |-> {}]
    /\ issued = [r \in Reqs |-> <<>>]
    /\ sent = [r \in Reqs |-> <<>>]

\* the store runs one statement atomically; fail is a connectivity failure
Run(stmt, fail) == IF fail THEN Failure(table, serial) ELSE Execute(stmt, table, serial)

Inserting(r) == pc[r] \in {"connect", "query", "insert"} /\ kind[r] \in {"POST", "PUT"}

\* a request arrives and its handler runs up to its first await
Request(r, k, id, vals) ==
    /\ pc[r] = "idle"
    /\ k \in {"POST", "PUT"} => serial + Cardinality({q \in Reqs : Inserting(q)}) <= MaxSerial
    /\ kind' = [kind EXCEPT ![r] = k]
    /\ reqId' = [reqId EXCEPT ![r] = id]
    /\ body' = [body EXCEPT ![r] = vals]
    /\ pre' = [pre EXCEPT ![r] = table]
    /\ pc' = [pc EXCEPT ![r] = IF k \in {"GETALL", "GET"} THEN "query" ELSE "connect"]
    /\ UNCHANGED <<table, serial, checkedOut, issued, sent>>

Arrive(r) ==
    \/ Request(r, "GETALL", "", <<>>)
    \/ \E id \in PathIds : Request(r, "GET", id, <<>>)
    \/ \E vals \in CreateBodies : Request(r, "POST", "", vals)
    \/ \E id \in PathIds, vals \in CreateBodies : Request(r, "PUT", id, vals)
    \/ \E id \in PathIds, vals \in PatchBodies : Request(r, "PATCH", id, vals)
    \/ \E id \in PathIds : Request(r, "DELETE", id, <<>>)

\* await pool.connect() resolves with a client
Connect(r) ==
    /\ pc[r] = "connect"
    /\ checkedOut < PoolSize
    /\ checkedOut' = checkedOut + 1
    /\ pc' = [pc EXCEPT ![r] = "query"]
    /\ UNCHANGED <<store, request, issued, sent>>

ErrorOf(k) ==
    IF k = "POST" THEN CreateError
    ELSE IF k = "DELETE" THEN DeleteError
    ELSE UpdateError

\* await pool.connect() rejects: the handler's catch answers 500
ConnectFail(r) ==
    /\ pc[r] = "connect"
    /\ checkedOut < PoolSize
    /\ sent' = [sent EXCEPT ![r] = Append(@, ErrorOf(kind[r]))]
    /\ pc' = [pc EXCEPT ![r] = "done"]
    /\ UNCHANGED <<store, checkedOut, request, issued>>

\* one `await client.query(...)` whose result ends the handler: on success
\* client.release() and res.send(okResp), on error the catch block
QueryAndFinish(r, stmt, okResp, fail) ==
    LET res == Run(stmt, fail)
    IN  /\ table' = res.table
        /\ serial' = res.serial
        /\ issued' = [issued EXCEPT ![r] = Append(@, stmt)]
        /\ checkedOut' = IF res.ok THEN checkedOut - 1 ELSE checkedOut
        /\ sent' = [sent EXCEPT ![r] = Append(@, IF res.ok THEN okResp ELSE ErrorOf(kind[r]))]
        /\ pc' = [pc EXCEPT ![r] = "done"]
        /\ UNCHANGED request

CreateRecipe(r) ==
    /\ pc[r] = "query" /\ kind[r] = "POST"
    /\ \E fail \in BOOLEAN : QueryAndFinish(r, InsertStmt(body[r]), CreatedOk, fail)

\* the UPDATE of PUT; reading result.rows[0].id of a result without rows
\* throws into the inner catch, which goes on to the INSERT
UpdateRecipe(r) ==
    /\ pc[r] = "query" /\ kind[r] = "PUT"
    /\ \E fail \in BOOLEAN :
          LET stmt == UpdateStmt(reqId[r], body[r])
              res == Run(stmt, fail)
          IN  /\ table' = res.table
              /\ serial' = res.serial
              /\ issued' = [issued EXCEPT ![r] = Append(@, stmt)]
              /\ IF ~res.ok
                 THEN /\ sent' = [sent EXCEPT ![r] = Append(@, UpdateError)]
                      /\ pc' = [pc EXCEPT ![r] = "done"]
                      /\ UNCHANGED checkedOut
                 ELSE IF Len(res.rows) > 0
                 THEN /\ sent' = [sent EXCEPT ![r] = Append(@, UpdatedOk)]
                      /\ pc' = [pc EXCEPT ![r] = "done"]
                      /\ checkedOut' = checkedOut - 1
                 ELSE /\ pc' = [pc EXCEPT ![r] = "insert"]
                      /\ UNCHANGED <<sent, checkedOut>>
              /\ UNCHANGED request

\* UpdateRecipeInsert creating the row under the requested id
UpdateRecipeInsertWithId(r) ==
    /\ pc[r] = "insert" /\ kind[r] = "PUT"
    /\ IsNum(reqId[r]) /\ ToNum(reqId[r]) \notin Ids(table)
    /\ table' = table \cup {Row(ToNum(reqId[r]), Get(body[r], "name"),
                                Get(body[r], "description"), Get(body[r], "photo"))}
    /\ issued' = [issued EXCEPT ![r] = Append(@, InsertStmt(body[r]))]
    /\ checkedOut' = checkedOut - 1
    /\ sent' = [sent EXCEPT ![r] = Append(@, UpdatedOk)]
    /\ pc' = [pc EXCEPT ![r] = "done"]
    /\ UNCHANGED <<serial, request>>

\* the INSERT in the inner catch of PUT
UpdateRecipeInsert(r) ==
    /\ pc[r] = "insert" /\ kind[r] = "PUT"
    /\ \E fail \in BOOLEAN : QueryAndFinish(r, InsertStmt(body[r]), UpdatedOk, fail)

\* PatchRecipe as a read-modify-write of the table seen at arrival
PatchRecipeStale(r) ==
    /\ pc[r] = "query" /\ kind[r] = "PATCH"
    /\ LET stmt == PatchStmt(reqId[r], body[r])
           res == Execute(stmt, pre[r], serial)
       IN  /\ table' = res.table
           /\ serial' = res.serial
           /\ issued' = [issued EXCEPT ![r] = Append(@, stmt)]
           /\ checkedOut' = IF res.ok THEN checkedOut - 1 ELSE checkedOut
           /\ sent' = [sent EXCEPT ![r] = Append(@, IF res.ok THEN PatchedOk ELSE UpdateError)]
           /\ pc' = [pc EXCEPT ![r] = "done"]
           /\ UNCHANGED request

\* PatchRecipe with the create fallback of PUT
PatchRecipeCreates(r) ==
    /\ pc[r] = "query" /\ kind[r] = "PATCH"
    /\ \E fail \in BOOLEAN :
          QueryAndFinish(r,
                         IF Matching(reqId[r], <<>>, table) = {}
                         THEN InsertStmt(body[r]) ELSE PatchStmt(reqId[r], body[r]),
                         PatchedOk, fail)

PatchRecipe(r) ==
    /\ pc[r] = "query" /\ kind[r] = "PATCH"
    /\ \E fail \in BOOLEAN : QueryAndFinish(r, PatchStmt(reqId[r], body[r]), PatchedOk, fail)

DeleteRecipe(r) ==
    /\ pc[r] = "query" /\ kind[r] = "DELETE"
    /\ \E fail \in BOOLEAN : QueryAndFinish(r, DeleteStmt(reqId[r]), DeletedOk, fail)

\* pool.query(): the pool takes a free client and returns it itself
AllRecipes(r) ==
    /\ pc[r] = "query" /\ kind[r] = "GETALL"
    /\ checkedOut < PoolSize
    /\ \E fail \in BOOLEAN :
          LET stmt == Stmt(SelectAllText, <<>>)
              res == Run(stmt, fail)
          IN  /\ issued' = [issued EXCEPT ![r] = Append(@, stmt)]
              /\ sent' = [sent EXCEPT ![r] =
                            Append(@, IF res.ok THEN Found(res.rows) ELSE GetAllError)]
    /\ pc' = [pc EXCEPT ![r] = "done"]
    /\ UNCHANGED <<store, checkedOut, request>>

\* with no row the handler sends the not-found text and then falls through
\* to the second res.send
RecipeById(r) ==
    /\ pc[r] = "query" /\ kind[r] = "GET"
    /\ checkedOut < PoolSize
    /\ \E fail \in BOOLEAN :
          LET stmt == SelectByIdStmt(reqId[r])
              res == Run(stmt, fail)
          IN  /\ issued' = [issued EXCEPT ![r] = Append(@, stmt)]
              /\ sent' = [sent EXCEPT ![r] =
                            IF ~res.ok THEN Append(@, GetError)
                            ELSE IF res.rowCount = 0
                            THEN Append(Append(@, NoRecipe(reqId[r])), Found({}))
                            ELSE Append(@, Found(res.rows))]
    /\ pc' = [pc EXCEPT ![r] = "done"]
    /\ UNCHANGED <<store, checkedOut, request>>

\* the exchange is over; the slot serves the next request
Finish(r) ==
    /\ pc[r] = "done"
    /\ pc' = [pc EXCEPT ![r] = "idle"]
    /\ kind' = [kind EXCEPT ![r] = "NONE"]
    /\ reqId' = [reqId EXCEPT ![r] = ""]
    /\ body' = [body EXCEPT ![r] = <<>>]
    /\ pre' = [pre EXCEPT ![r] = {}]
    /\ issued' = [issued EXCEPT ![r] = <<>>]
    /\ sent' = [sent EXCEPT ![r] = <<>>]
    /\ UNCHANGED <<store, checkedOut>>

Step(r) ==
    \/ Arrive(r)
    \/ Connect(r)
    \/ ConnectFail(r)
    \/ AllRecipes(r)
    \/ RecipeById(r)
    \/ CreateRecipe(r)
    \/ UpdateRecipe(r)
    \/ UpdateRecipeInsert(r)
    \/ PatchRecipe(r)
    \/ DeleteRecipe(r)
    \/ Finish(r)

\* requests served one at a time
Next == \E r \in SeqReqs : Step(r)
Spec == Init /\ [][Next]_vars

\* requests served concurrently: the handlers of the two slots interleave at
\* their awaits, and the store runs each statement atomically.  The table
\* holds the rows that MaxSerial POSTs of FullBody("a") have created.
ConcPatchBodies ==
    { <<Pair("name", "b")>>,
      <<Pair("name", "c"), Pair("photo", "c")>> }
ConcIds == {"1", ToString(MaxSerial + 1)}
InitConc ==
    /\ table = {Row(n, "a", "a", "a") : n \in 1..MaxSerial}
    /\ serial = MaxSerial + 1
    /\ checkedOut = 0
    /\ pc = [r \in Reqs |-> "idle"]
    /\ kind = [r \in Reqs |-> "NONE"]
    /\ reqId = [r \in Reqs |-> ""]
    /\ body = [r \in Reqs |-> <<>>]
    /\ pre = [r \in Reqs |-> {}]
    /\ issued = [r \in Reqs |-> <<>>]
    /\ sent = [r \in Reqs |-> <<>>]
\* an answered exchange is closed before the next request arrives, so two
\* answered slots always hold requests that were in flight together
ArriveConc(r) ==
    /\ \A q \in Reqs : pc[q] # "done"
    /\ \E id \in ConcIds, vals \in ConcPatchBodies : Request(r, "PATCH", id, vals)
StepConc(r) ==
    \/ ArriveConc(r)
    \/ Connect(r)
    \/ ConnectFail(r)
    \/ PatchRecipe(r)
    \/ Finish(r)
NextConc == \E r \in Reqs : StepConc(r)
SpecConc == InitConc /\ [][NextConc]_vars

\* the PATCH handler alone, over every body that lists distinct fields in
\* any order with a value or null each
BodyVals == {"a", "b", Null}
AllPatchBodies ==
    {vals \in UNION {[1..n -> Fields \X BodyVals] : n \in 0..Cardinality(Fields)} :
        \A i, j \in 1..Len(vals) : vals[i][1] = vals[j][1] => i = j}
ArriveBuild(r) ==
    \E id \in PathIds, vals \in AllPatchBodies : Request(r, "PATCH", id, vals)
StepBuild(r) ==
    \/ ArriveBuild(r)
    \/ Connect(r)
    \/ ConnectFail(r)
    \/ PatchRecipe(r)
    \/ Finish(r)
NextBuild == \E r \in SeqReqs : StepBuild(r)
SpecBuild == Init /\ [][NextBuild]_vars

\* ----------------------------------------------------------------- claims
Range(seq) == {seq[i] : i \in 1..Len(seq)}
Done(r) == pc[r] = "done"
Answered(r) == Done(r) /\ Len(sent[r]) >= 1
\* every handler answers 500 from its catch block and from nowhere else
NoFailure(r) == Answered(r) /\ sent[r][1].status # 500
Exists(r) == IsNum(reqId[r]) /\ ToNum(reqId[r]) \in Ids(pre[r])
Missing(r) == IsNum(reqId[r]) /\ ToNum(reqId[r]) \notin Ids(pre[r])
FullPut(r) == kind[r] = "PUT" /\ body[r] \in FullBodies
\* a PATCH whose non-null keys are a non-empty subset of the three fields
FieldPatch(r) ==
    /\ kind[r] = "PATCH"
    /\ PatchKeys(body[r]) # <<>>
    /\ Range(PatchKeys(body[r])) \subseteq Fields

\* C1: a PUT with a full field set on an existing id, with no store failure,
\* updates in place: the set of row ids is the one before the request and
\* the answer is the Updated outcome.
C1_PutExistingUpdatesInPlace ==
    \A r \in Reqs :
        (FullPut(r) /\ Exists(r) /\ NoFailure(r)) =>
            /\ Ids(table) = Ids(pre[r])
            /\ sent[r] = <<UpdatedOk>>

\* C2: a PUT with a full field set on an id that matches no row, with no
\* store failure, inserts exactly one row, leaves the rows that were there
\* unchanged, and its answer differs from the answer of a PUT on an existing
\* id (UpdatedOk, see PutExistingAnswer).
C2_PutMissingInsertsAndTells ==
    \A r \in Reqs :
        (FullPut(r) /\ Missing(r) /\ NoFailure(r)) =>
            /\ Cardinality(table) = Cardinality(pre[r]) + 1
            /\ pre[r] \subseteq table
            /\ sent[r][1] # UpdatedOk

\* what a PUT on an existing id answers when nothing fails
PutExistingAnswer ==
    \A r \in Reqs : (FullPut(r) /\ Exists(r) /\ NoFailure(r)) => sent[r] = <<UpdatedOk>>

\* C3: with no request in flight no connection is checked out.
C3_ConnectionsReleased ==
    (\A r \in Reqs : pc[r] \in {"idle", "done"}) => checkedOut = 0

\* C4: a PATCH with a non-empty field subset never changes the set of row
\* ids, for every id and whether or not the store call fails.
C4_PatchNeverCreates ==
    \A r \in Reqs :
        (FieldPatch(r) /\ pc[r] # "idle") => Ids(table) = Ids(pre[r])

\* a PATCH on an id without a row ran its statement and was answered
C4_Witness ==
    \E r \in Reqs :
        /\ FieldPatch(r) /\ Missing(r) /\ NoFailure(r)
        /\ Len(issued[r]) = 1
        /\ pre[r] # {}

\* C5: a PATCH with a non-empty field subset on an id that matches no row is
\* answered with something else than the answer of a patch that matched a
\* row (PatchedOk, see PatchMatchedAnswer).
C5_PatchMissingIsNotFound ==
    \A r \in Reqs :
        (FieldPatch(r) /\ Missing(r) /\ Answered(r)) => sent[r][1] # PatchedOk

\* what a PATCH that matched and changed a row answers
PatchMatchedAnswer ==
    \A r \in Reqs :
        (FieldPatch(r) /\ Exists(r) /\ Done(r) /\ table # pre[r]) => sent[r] = <<PatchedOk>>

\* C6: the statement PATCH hands to the store for a non-empty field subset S
\* has |S| + 1 parameters, the last one is the id, and the WHERE clause
\* names the id through placeholder $(|S| + 1).
C6_PatchBindsId ==
    \A r \in Reqs :
        (FieldPatch(r) /\ Len(issued[r]) >= 1) =>
            LET stmt == issued[r][1]
                n == Len(PatchKeys(body[r]))
            IN  /\ Len(stmt.params) = n + 1
                /\ stmt.params[Len(stmt.params)] = reqId[r]
                /\ stmt.text[Len(stmt.text)] = Placeholder(n + 1)

\* the lexemes of a statement that carries no value
SqlWords == {"UPDATE", "recipes", "SET", "WHERE", "id", "=", ","}
Placeholders == {Placeholder(k) : k \in 1..MaxParams}

\* C7: the text of a PATCH statement holds only the table name, field
\* identifiers and placeholders, and the id and every non-null body value
\* are among the bound parameters.
C7_PatchTextHasNoValue ==
    \A r \in Reqs :
        (kind[r] = "PATCH" /\ Len(issued[r]) >= 1) =>
            LET stmt == issued[r][1]
            IN  /\ Range(stmt.text) \subseteq (SqlWords \cup Range(ObjectKeys(body[r])) \cup Placeholders)
                /\ reqId[r] \in Range(stmt.params)
                /\ \A i \in 1..Len(body[r]) :
                      body[r][i][2] # Null => body[r][i][2] \in Range(stmt.params)

\* C8: DELETE answers Deleted exactly when it removed a row: a DELETE on an
\* existing id that did not fail answers Deleted, and a DELETE on an id
\* without a row does not.
C8_DeleteTellsWhich ==
    \A r \in Reqs :
        (kind[r] = "DELETE" /\ Answered(r)) =>
            /\ (Exists(r) /\ NoFailure(r)) =>
                    (sent[r] = <<DeletedOk>> /\ ToNum(reqId[r]) \notin Ids(table))
            /\ (Missing(r) /\ NoFailure(r)) => sent[r][1] # DeletedOk

\* C9: a PATCH whose field set is empty hands nothing to the store and
\* leaves the store unchanged.
C9_EmptyPatchNotSent ==
    \A r \in Reqs :
        (kind[r] = "PATCH" /\ PatchKeys(body[r]) = <<>>) =>
            /\ issued[r] = <<>>
            /\ table = pre[r]

\* C10: a PATCH whose body names a field outside name, description, photo
\* hands nothing to the store and leaves the store unchanged.
C10_UnknownFieldNotSent ==
    \A r \in Reqs :
        (kind[r] = "PATCH" /\ ~(Range(ObjectKeys(body[r])) \subseteq Fields)) =>
            /\ issued[r] = <<>>
            /\ table = pre[r]

\* C11: no request rewrites the id column.  Only DELETE removes rows, so a
\* row that was there when any other request arrived is still there, and
\* with an immutable id its id is still an id of the table.
C11_IdImmutable ==
    \A r \in Reqs :
        (pc[r] # "idle" /\ kind[r] # "DELETE") => Ids(pre[r]) \subseteq Ids(table)

\* the body gives field f a value
Names(vals, f) == \E i \in 1..Len(vals) : vals[i][1] = f /\ vals[i][2] # Null
\* the row a patch with body vals is meant to leave
Patched(row, vals) ==
    [id |-> row.id,
     name |-> IF Names(vals, "name") THEN Get(vals, "name") ELSE row.name,
     description |-> IF Names(vals, "description") THEN Get(vals, "description") ELSE row.description,
     photo |-> IF Names(vals, "photo") THEN Get(vals, "photo") ELSE row.photo]
PatchedTable(tbl, id, vals) ==
    {IF row.id = ToNum(id) THEN Patched(row, vals) ELSE row : row \in tbl}

\* C12: a PATCH on an existing id with a non-empty field subset S that did
\* not fail sets exactly the fields of S in that row and leaves the row's
\* other fields and every other row as they were.
C12_PatchSetsExactlyS ==
    \A r \in Reqs :
        (FieldPatch(r) /\ Exists(r) /\ NoFailure(r)) =>
            table = PatchedTable(pre[r], reqId[r], body[r])

\* a patch that named some but not all fields changed one row of several
C12_Witness ==
    \E r \in Reqs :
        /\ FieldPatch(r) /\ Exists(r) /\ NoFailure(r)
        /\ Cardinality(pre[r]) >= 2
        /\ table # pre[r]
        /\ \E f \in Fields : ~Names(body[r], f)
        /\ Len(PatchKeys(body[r])) >= 2

C14_CreateInsertsOne ==
    \A r \in Reqs :
        (kind[r] = "POST" /\ body[r] \in FullBodies /\ NoFailure(r)) =>
            \E row \in table :
                /\ table = pre[r] \cup {row}
                /\ row \notin pre[r]
                /\ row.id \notin Ids(pre[r])
                /\ row.name = Get(body[r], "name")
                /\ row.description = Get(body[r], "description")
                /\ row.photo = Get(body[r], "photo")

\* a POST created a row next to an existing one
C14_Witness ==
    \E r \in Reqs :
        /\ kind[r] = "POST" /\ body[r] \in FullBodies /\ NoFailure(r)
        /\ pre[r] # {}
        /\ Cardinality(table) = Cardinality(pre[r]) + 1

\* two requests that patched the same existing id, neither failed, and both
\* arrived on the same table
PatchPair(r, q) ==
    /\ r # q
    /\ FieldPatch(r) /\ FieldPatch(q)
    /\ reqId[r] = reqId[q]
    /\ Exists(r) /\ Exists(q)
    /\ NoFailure(r) /\ NoFailure(q)
    /\ pre[r] = pre[q]

\* C15: two PATCH requests on the same existing id whose handlers interleave
\* leave the table that one of the two sequential orders leaves: a field
\* named by one patch has its value, a field named by both has the value of
\* one of them, every other field and row is unchanged.
C15_ConcurrentPatchesSerialize ==
    \A r, q \in Reqs :
        PatchPair(r, q) =>
            \/ table = PatchedTable(PatchedTable(pre[r], reqId[r], body[r]), reqId[q], body[q])
            \/ table = PatchedTable(PatchedTable(pre[r], reqId[r], body[q]), reqId[r], body[r])

\* both patches took effect on one row: they name a common field with
\* different values and each a field the other one does not change
C15_Witness ==
    \E r, q \in Reqs :
        /\ PatchPair(r, q)
        /\ Cardinality(pre[r]) >= 2
        /\ table # PatchedTable(pre[r], reqId[r], body[r])
        /\ table # PatchedTable(pre[r], reqId[r], body[q])
        /\ \E f \in Fields :
              Names(body[r], f) /\ Names(body[q], f) /\ Get(body[r], f) # Get(body[q], f)

\* the pairs of a body whose value is not null, in the order of the body
RECURSIVE NonNull(_)
NonNull(vals) ==
    IF Len(vals) = 0 THEN <<>>
    ELSE IF vals[1][2] = Null THEN NonNull(Tail(vals))
    ELSE <<vals[1]>> \o NonNull(Tail(vals))

\* C16: in the statement PATCH builds, with k1..kn the non-null keys of the
\* body in body order, the i-th assignment of the SET clause is `ki = $i`
\* and the i-th bound parameter is the body's value for ki; keys with a null
\* value are in neither.
C16_SetClauseInBodyOrder ==
    \A r \in Reqs :
        (kind[r] = "PATCH" /\ Len(issued[r]) >= 1) =>
            LET stmt == issued[r][1]
                nn == NonNull(body[r])
                n == Len(nn)
                where == IF n = 0 THEN 4 ELSE 4 * n + 3
            IN  /\ Len(stmt.params) = n
                /\ Len(stmt.text) = where + 3
                /\ stmt.text[where] = "WHERE"
                /\ \A i \in 1..n :
                      /\ stmt.text[4 * i] = nn[i][1]
                      /\ stmt.text[4 * i + 1] = "="
                      /\ stmt.text[4 * i + 2] = Placeholder(i)
                      /\ i < n => stmt.text[4 * i + 3] = ","
                      /\ stmt.params[i] = nn[i][2]

\* a statement was built from a body with a null key between two keys that
\* carry different values, listed in another order than the columns
C16_Witness ==
    \E r \in Reqs :
        /\ kind[r] = "PATCH" /\ Len(issued[r]) = 1
        /\ Len(body[r]) = 3
        /\ body[r][1] = Pair("photo", "b")
        /\ body[r][2][2] = Null
        /\ body[r][3] = Pair("name", "a")

\* C17: a handler that has run to its end has sent exactly one response.
C17_OneResponse ==
    \A r \in Reqs : Done(r) => Len(sent[r]) = 1

\* C18: a create, PUT, PATCH or DELETE request answered 500 has left every
\* row of the store as it was when the request arrived.
C18_FailureLeavesStore ==
    \A r \in Reqs :
        (kind[r] \in {"POST", "PUT", "PATCH", "DELETE"} /\ Answered(r) /\ sent[r][1].status = 500) =>
            table = pre[r]

====
